---- MODULE Spec2Model ----
(***************************************************************************)
(* Model of kosmonaut's src/style/properties/mod.rs: the property          *)
(* declaration block, the declaration list parser that fills it, the       *)
(* cascade ordering of contextual declarations and the collection that     *)
(* sorts them.                                                             *)
(***************************************************************************)
EXTENDS Integers, Sequences, FiniteSets, TLC

VARIABLES
    \* PropertyDeclarationBlock
    declarations,             \* Vec<PropertyDeclaration>
    declarations_importance,  \* SmallBitVec
    block_longhands,          \* HashSet<LonghandId> of the block
    calls,                    \* history: the calls made on the block so far
    \* parse_property_declaration_list
    entries,                  \* the declaration list being parsed
    next_entry,               \* position of decl_iter in entries
    parser_declarations,      \* PropertyDeclarationParser.declarations
    \* ContextualPropertyDeclarations
    decls,                    \* Vec<ContextualPropertyDeclaration>
    longhands,                \* HashSet<LonghandId> of the collection
    coll_op,                  \* history: the last method called on the collection
    \* Ord::cmp applied to arguments
    cmp_self, cmp_other, cmp_third,
    cmp_out                   \* the orderings cmp returned, "None" before the calls

vars == <<declarations, declarations_importance, block_longhands, calls,
          entries, next_entry, parser_declarations,
          decls, longhands, coll_op,
          cmp_self, cmp_other, cmp_third, cmp_out>>

blockVars == <<declarations, declarations_importance, block_longhands, calls>>
parseVars == <<entries, next_entry, parser_declarations>>
collVars  == <<decls, longhands, coll_op>>
cmpVars   == <<cmp_self, cmp_other, cmp_third, cmp_out>>

-----------------------------------------------------------------------------
(* Bounds *)

\* specificities range over 0..MaxSpecificity
MaxSpecificity == 1
\* calls made on one PropertyDeclarationBlock
MaxCalls == 4
\* contextual declarations added to one collection
MaxDecls == 3
\* entries of one parsed declaration list
MaxEntries == 2
\* contextual declarations added to one collection under SpecPresence
MaxPresence == 2

-----------------------------------------------------------------------------
(* Value domains *)

\* enum PropertyDeclaration: the variant is the property tag
Tags == {"Display", "FontSize", "MarginLeft"}

\* the specified-value payloads a variant can hold (opaque to this module)
Payloads == {"12px", "16px"}

PropertyDeclaration == [tag : Tags, value : Payloads]

\* mem::discriminant(a) == mem::discriminant(b)
SameDiscriminant(a, b) == a.tag = b.tag

\* enum Importance
Importance == {"Normal", "Important"}

\* Importance::important
important(imp) == imp = "Important"

\* enum CssOrigin, with the cascade_origin of a Sheet
CssOrigin == {"Inline", "Embedded", "SheetUserAgent", "SheetUser", "SheetAuthor"}

IsSheet(o) == o \in {"SheetUserAgent", "SheetUser", "SheetAuthor"}

\* StylesheetOrigin.cascade_origin
cascade_origin(o) ==
    CASE o = "SheetUserAgent" -> "UserAgent"
      [] o = "SheetUser"      -> "User"
      [] o = "SheetAuthor"    -> "Author"

Specificity == 0..MaxSpecificity

\* struct ContextualPropertyDeclaration.  No operation of this module reads
\* the payload of inner_decl or source_location, so they are held fixed.
ContextualPropertyDeclaration ==
    [inner_decl : [tag : Tags, value : {"12px"}],
     important : BOOLEAN,
     origin : CssOrigin,
     source_location : {"None"},
     specificity : Specificity]

-----------------------------------------------------------------------------
(* impl Ord for ContextualPropertyDeclaration *)

\* Specificity's Ord: the order of the specificity values
SpecificityCmp(s, t) ==
    IF s < t THEN "Less" ELSE IF s > t THEN "Greater" ELSE "Equal"

\* cmp_important_origins with the User/Author arm of the sheet table reversed
cmp_important_origins_UserBelowAuthor(a, b) ==
    IF ~IsSheet(a) /\ ~IsSheet(b) THEN "Equal"
    ELSE IF ~IsSheet(a) /\ IsSheet(b) THEN
        (IF cascade_origin(b) \in {"UserAgent", "User"} THEN "Less" ELSE "Equal")
    ELSE IF IsSheet(a) /\ ~IsSheet(b) THEN
        (IF cascade_origin(a) \in {"UserAgent", "User"} THEN "Greater" ELSE "Equal")
    ELSE
        LET sa == cascade_origin(a)
            sb == cascade_origin(b)
        IN  CASE sa = "UserAgent" /\ sb = "UserAgent" -> "Equal"
              [] sa = "UserAgent" /\ sb \in {"User", "Author"} -> "Greater"
              [] sa = "User" /\ sb = "UserAgent" -> "Less"
              [] sa = "User" /\ sb = "User" -> "Equal"
              [] sa = "User" /\ sb = "Author" -> "Less"
              [] sa = "Author" /\ sb = "UserAgent" -> "Less"
              [] sa = "Author" /\ sb = "User" -> "Greater"
              [] sa = "Author" /\ sb = "Author" -> "Equal"

\* cmp_important_origins with Inline/Embedded ranked above the UserAgent and
\* User sheets instead of below them
cmp_important_origins_InlineAboveSheets(a, b) ==
    IF ~IsSheet(a) /\ ~IsSheet(b) THEN "Equal"
    ELSE IF ~IsSheet(a) /\ IsSheet(b) THEN
        (IF cascade_origin(b) \in {"UserAgent", "User"} THEN "Greater" ELSE "Equal")
    ELSE IF IsSheet(a) /\ ~IsSheet(b) THEN
        (IF cascade_origin(a) \in {"UserAgent", "User"} THEN "Less" ELSE "Equal")
    ELSE
        LET sa == cascade_origin(a)
            sb == cascade_origin(b)
        IN  CASE sa = "UserAgent" /\ sb = "UserAgent" -> "Equal"
              [] sa = "UserAgent" /\ sb \in {"User", "Author"} -> "Greater"
              [] sa = "User" /\ sb = "UserAgent" -> "Less"
              [] sa = "User" /\ sb = "User" -> "Equal"
              [] sa = "User" /\ sb = "Author" -> "Greater"
              [] sa = "Author" /\ sb \in {"UserAgent", "User"} -> "Less"
              [] sa = "Author" /\ sb = "Author" -> "Equal"

\* fn cmp_important_origins(a, b)
cmp_important_origins(a, b) ==
    IF ~IsSheet(a) /\ ~IsSheet(b) THEN "Equal"
    ELSE IF ~IsSheet(a) /\ IsSheet(b) THEN
        (IF cascade_origin(b) \in {"UserAgent", "User"} THEN "Less" ELSE "Equal")
    ELSE IF IsSheet(a) /\ ~IsSheet(b) THEN
        (IF cascade_origin(a) \in {"UserAgent", "User"} THEN "Greater" ELSE "Equal")
    ELSE
        LET sa == cascade_origin(a)
            sb == cascade_origin(b)
        IN  CASE sa = "UserAgent" /\ sb = "UserAgent" -> "Equal"
              [] sa = "UserAgent" /\ sb \in {"User", "Author"} -> "Greater"
              [] sa = "User" /\ sb = "UserAgent" -> "Less"
              [] sa = "User" /\ sb = "User" -> "Equal"
              [] sa = "User" /\ sb = "Author" -> "Greater"
              [] sa = "Author" /\ sb \in {"UserAgent", "User"} -> "Less"
              [] sa = "Author" /\ sb = "Author" -> "Equal"

\* cmp with the origin step taken before the importance step
cmp_OriginBeforeImportance(self, other) ==
    IF SameDiscriminant(self.inner_decl, other.inner_decl) THEN
        LET o == cmp_important_origins(self.origin, other.origin)
        IN  IF o = "Greater" THEN "Greater"
            ELSE IF o = "Less" THEN "Less"
            ELSE IF self.important /\ ~other.important THEN "Greater"
            ELSE IF ~self.important /\ other.important THEN "Less"
            ELSE SpecificityCmp(self.specificity, other.specificity)
    ELSE "Equal"

\* cmp without the inversion of the origin table for two normal declarations
cmp_NoInversion(self, other) ==
    IF SameDiscriminant(self.inner_decl, other.inner_decl) THEN
        IF self.important /\ ~other.important THEN "Greater"
        ELSE IF ~self.important /\ other.important THEN "Less"
        ELSE
            LET o == cmp_important_origins(self.origin, other.origin)
            IN  IF o = "Greater" THEN "Greater"
                ELSE IF o = "Less" THEN "Less"
                ELSE SpecificityCmp(self.specificity, other.specificity)
    ELSE "Equal"

\* cmp that stops at the origin step for two important declarations
cmp_NoSpecificity(self, other) ==
    IF SameDiscriminant(self.inner_decl, other.inner_decl) THEN
        IF self.important /\ ~other.important THEN "Greater"
        ELSE IF ~self.important /\ other.important THEN "Less"
        ELSE IF self.important /\ other.important THEN
            cmp_important_origins(self.origin, other.origin)
        ELSE
            LET o == cmp_important_origins(self.origin, other.origin)
            IN  IF o = "Less" THEN "Greater"
                ELSE IF o = "Greater" THEN "Less"
                ELSE SpecificityCmp(self.specificity, other.specificity)
    ELSE "Equal"

\* cmp that ranks declarations of different properties like those of one
cmp_IgnoreTag(self, other) ==
    IF self.important /\ ~other.important THEN "Greater"
    ELSE IF ~self.important /\ other.important THEN "Less"
    ELSE IF self.important /\ other.important THEN
        LET o == cmp_important_origins(self.origin, other.origin)
        IN  IF o = "Greater" THEN "Greater"
            ELSE IF o = "Less" THEN "Less"
            ELSE SpecificityCmp(self.specificity, other.specificity)
    ELSE
        LET o == cmp_important_origins(self.origin, other.origin)
        IN  IF o = "Less" THEN "Greater"
            ELSE IF o = "Greater" THEN "Less"
            ELSE SpecificityCmp(self.specificity, other.specificity)

\* fn cmp(&self, other)
cmp(self, other) ==
    IF SameDiscriminant(self.inner_decl, other.inner_decl) THEN
        IF self.important /\ ~other.important THEN "Greater"
        ELSE IF ~self.important /\ other.important THEN "Less"
        ELSE IF self.important /\ other.important THEN
            LET o == cmp_important_origins(self.origin, other.origin)
            IN  IF o = "Greater" THEN "Greater"
                ELSE IF o = "Less" THEN "Less"
                ELSE SpecificityCmp(self.specificity, other.specificity)
        ELSE
            LET o == cmp_important_origins(self.origin, other.origin)
            IN  IF o = "Less" THEN "Greater"
                ELSE IF o = "Greater" THEN "Less"
                ELSE SpecificityCmp(self.specificity, other.specificity)
    ELSE "Equal"

\* PartialOrd::lt through partial_cmp: the is_less the sort uses
is_less(a, b) == cmp(a, b) = "Less"

-----------------------------------------------------------------------------
(* Initial values of each component *)

BlockNew ==
    /\ declarations = <<>>
    /\ declarations_importance = <<>>
    /\ block_longhands = {}
    /\ calls = <<>>

ParseIdle ==
    /\ entries = <<>>
    /\ next_entry = 1
    /\ parser_declarations = <<>>

CollectionNew ==
    /\ decls = <<>>
    /\ longhands = {}
    /\ coll_op = "new"

NoOrdering == [ss |-> "None", so |-> "None", os |-> "None", ot |-> "None",
               to |-> "None", st |-> "None", ts |-> "None"]

CmpIdle ==
    /\ cmp_self = CHOOSE d \in ContextualPropertyDeclaration : TRUE
    /\ cmp_other = cmp_self
    /\ cmp_third = cmp_self
    /\ cmp_out = NoOrdering

-----------------------------------------------------------------------------
(* The ordering applied to three declarations *)

InitCmp ==
    /\ BlockNew /\ ParseIdle /\ CollectionNew
    /\ cmp_self \in ContextualPropertyDeclaration
    /\ cmp_other \in ContextualPropertyDeclaration
    /\ cmp_third \in ContextualPropertyDeclaration
    /\ cmp_out = NoOrdering

\* cmp called on every pair the ordering laws speak of
CmpCall ==
    /\ cmp_out = NoOrdering
    /\ cmp_out' = [ss |-> cmp(cmp_self, cmp_self),
                   so |-> cmp(cmp_self, cmp_other),
                   os |-> cmp(cmp_other, cmp_self),
                   ot |-> cmp(cmp_other, cmp_third),
                   to |-> cmp(cmp_third, cmp_other),
                   st |-> cmp(cmp_self, cmp_third),
                   ts |-> cmp(cmp_third, cmp_self)]
    /\ UNCHANGED <<cmp_self, cmp_other, cmp_third>>
    /\ UNCHANGED <<blockVars, parseVars, collVars>>

NextCmp == CmpCall

SpecCmp == InitCmp /\ [][NextCmp]_vars

-----------------------------------------------------------------------------
(* impl PropertyDeclarationBlock *)

\* the indices of v holding a declaration of new_decl's variant
Matching(v, new_decl) == {i \in 1..Len(v) : SameDiscriminant(v[i], new_decl)}

\* the largest element of a non-empty set of integers
Max(S) == CHOOSE m \in S : \A n \in S : n <= m

\* the smallest element of a non-empty set of integers
Min(S) == CHOOSE m \in S : \A n \in S : m <= n

\* SmallBitVec::set / the slice assignment: v with v[idx] replaced by x
SetAt(v, idx, x) == [v EXCEPT ![idx] = x]

\* Vec::remove(index), index counted from 1
RemoveAt(v, index) == SubSeq(v, 1, index - 1) \o SubSeq(v, index + 1, Len(v))

\* add_declaration that drops the old entry and appends the new one
add_declaration_MoveToEnd(blk, new_decl, new_importance) ==
    LET m == Matching(blk.declarations, new_decl)
    IN  IF m # {} THEN
            [declarations |-> Append(RemoveAt(blk.declarations, Max(m)), new_decl),
             declarations_importance |->
                 Append(RemoveAt(blk.declarations_importance, Max(m)),
                        important(new_importance))]
        ELSE
            [declarations |-> Append(blk.declarations, new_decl),
             declarations_importance |->
                 Append(blk.declarations_importance, important(new_importance))]

\* fn add_declaration(&mut self, new_decl, new_importance): the loop leaves in
\* swap_index the last index whose variant matches
add_declaration(blk, new_decl, new_importance) ==
    LET m == Matching(blk.declarations, new_decl)
    IN  IF m # {} THEN
            [declarations |-> SetAt(blk.declarations, Max(m), new_decl),
             declarations_importance |->
                 SetAt(blk.declarations_importance, Max(m), important(new_importance))]
        ELSE
            [declarations |-> Append(blk.declarations, new_decl),
             declarations_importance |->
                 Append(blk.declarations_importance, important(new_importance))]

\* fn remove_decl(&mut self, index): only self.declarations is touched
remove_decl(blk, index) ==
    [declarations |-> RemoveAt(blk.declarations, index),
     declarations_importance |-> blk.declarations_importance]

Block == [declarations |-> declarations,
          declarations_importance |-> declarations_importance]

AddCall(decl, imp) == [op |-> "add_declaration", decl |-> decl, importance |-> imp]

RemoveCall(index) == [op |-> "remove_decl", index |-> index]

InitBlock ==
    /\ BlockNew /\ ParseIdle /\ CollectionNew /\ CmpIdle

AddDeclaration ==
    /\ Len(calls) < MaxCalls
    /\ \E new_decl \in PropertyDeclaration, new_importance \in Importance :
        LET blk == add_declaration(Block, new_decl, new_importance)
        IN  /\ declarations' = blk.declarations
            /\ declarations_importance' = blk.declarations_importance
            /\ calls' = Append(calls, AddCall(new_decl, new_importance))
    /\ UNCHANGED <<block_longhands, parseVars, collVars, cmpVars>>

\* index is in range: Vec::remove panics otherwise
RemoveDecl ==
    /\ Len(calls) < MaxCalls
    /\ \E index \in 1..Len(declarations) :
        LET blk == remove_decl(Block, index)
        IN  /\ declarations' = blk.declarations
            /\ declarations_importance' = blk.declarations_importance
            /\ calls' = Append(calls, RemoveCall(index))
    /\ UNCHANGED <<block_longhands, parseVars, collVars, cmpVars>>

NextBlock == AddDeclaration \/ RemoveDecl

SpecBlock == InitBlock /\ [][NextBlock]_vars

-----------------------------------------------------------------------------
(* parse_property_declaration_list and PropertyDeclarationParser *)

\* what PropertyId::parse makes of the entry's name
PropertyIds == Tags \cup {"Unknown"}

\* One entry of the declaration list, as the tokenizer presents it:
\*   id     the property its name resolves to, or Unknown
\*   value  the value tokens: none, tokens the value parser rejects, or
\*          tokens it parses to a payload
\*   junk   whether further tokens follow the value before any '!'
\*   bang   what follows from the '!' on: nothing, !important, or something
\*          parse_important rejects
Entry == [id : PropertyIds,
          value : {"none", "bad"} \cup Payloads,
          junk : BOOLEAN,
          bang : {"", "!important", "!junk"}]

\* PropertyDeclaration::parse_into inside parse_until_before(Delimiter::Bang):
\* Display pushes nothing and consumes nothing; FontSize and MarginLeft push
\* the parsed value or fail on it.  The delimited parser must then be
\* exhausted, which is checked after the push.
parse_into(declarations_, id, e) ==
    IF id = "Display" THEN
        [ok |-> e.value = "none" /\ ~e.junk, declarations |-> declarations_]
    ELSE IF e.value \in Payloads THEN
        [ok |-> ~e.junk,
         declarations |-> Append(declarations_, [tag |-> id, value |-> e.value])]
    ELSE
        [ok |-> FALSE, declarations |-> declarations_]

\* fn parse_value(&mut self, name, input)
parse_value(declarations_, e) ==
    IF e.id = "Unknown" THEN
        [result |-> "Err", importance |-> "Normal", declarations |-> declarations_]
    ELSE
        LET r == parse_into(declarations_, e.id, e)
            importance == IF e.bang = "!important" THEN "Important" ELSE "Normal"
        IN  IF ~r.ok THEN
                [result |-> "Err", importance |-> "Normal",
                 declarations |-> r.declarations]
            ELSE IF e.bang = "!junk" THEN   \* expect_exhausted fails
                [result |-> "Err", importance |-> "Normal",
                 declarations |-> r.declarations]
            ELSE
                [result |-> "Ok", importance |-> importance,
                 declarations |-> r.declarations]

\* for decl in decls.iter() { block.add_declaration(decl.clone(), importance) }
RECURSIVE AddAll(_, _, _)
AddAll(blk, ds, importance) ==
    IF ds = <<>> THEN blk
    ELSE AddAll(add_declaration(blk, Head(ds), importance), Tail(ds), importance)

EntryLists == UNION {[1..n -> Entry] : n \in 0..MaxEntries}

InitParse ==
    /\ BlockNew /\ CollectionNew /\ CmpIdle
    /\ entries \in EntryLists
    /\ next_entry = 1
    /\ parser_declarations = <<>>

\* one turn of the while loop, arm Ok(importance)
ParseOk ==
    /\ next_entry <= Len(entries)
    /\ LET r == parse_value(parser_declarations, entries[next_entry])
           blk == AddAll(Block, r.declarations, r.importance)
       IN  /\ r.result = "Ok"
           /\ declarations' = blk.declarations
           /\ declarations_importance' = blk.declarations_importance
           /\ calls' = calls \o [i \in 1..Len(r.declarations) |->
                                    AddCall(r.declarations[i], r.importance)]
           /\ parser_declarations' = <<>>
    /\ next_entry' = next_entry + 1
    /\ UNCHANGED <<block_longhands, entries, collVars, cmpVars>>

\* one turn of the while loop, arm Err(parse_err)
ParseErr ==
    /\ next_entry <= Len(entries)
    /\ LET r == parse_value(parser_declarations, entries[next_entry])
       IN  /\ r.result = "Err"
           /\ parser_declarations' = r.declarations
    /\ next_entry' = next_entry + 1
    /\ UNCHANGED <<declarations, declarations_importance, block_longhands, calls,
                   entries, collVars, cmpVars>>

NextParse == ParseOk \/ ParseErr

SpecParse == InitParse /\ [][NextParse]_vars

-----------------------------------------------------------------------------
(* impl ContextualPropertyDeclarations *)

\* LonghandId::from(&PropertyDeclaration): the id of the declaration's variant
LonghandIdFrom(inner_decl) == inner_decl.tag

\* slice::sort on a short slice is a stable insertion sort driven by is_less.
\* The standard library has shipped two of them: one inserts each element
\* into the sorted tail to its right (insert_head), one into the sorted
\* prefix to its left (insert_tail).

\* v[1] inserted into the sorted v[2..]
insert_head(v) ==
    IF Len(v) >= 2 /\ is_less(v[2], v[1]) THEN
        LET tmp == v[1]
            dest == Max({j \in 2..Len(v) : \A k \in 2..j : is_less(v[k], tmp)})
        IN  SubSeq(v, 2, dest) \o <<tmp>> \o SubSeq(v, dest + 1, Len(v))
    ELSE v

\* for i in (0..len - 1).rev() { insert_head(&mut v[i..]) }
RECURSIVE sort_by_insert_head(_, _)
sort_by_insert_head(v, i) ==
    IF i < 1 THEN v
    ELSE sort_by_insert_head(
             SubSeq(v, 1, i - 1) \o insert_head(SubSeq(v, i, Len(v))), i - 1)

\* v[n] inserted into the sorted v[1..n-1]
insert_tail(v, n) ==
    LET tmp == v[n]
        dest == Min({j \in 1..n : \A k \in j..(n - 1) : is_less(tmp, v[k])})
    IN  SubSeq(v, 1, dest - 1) \o <<tmp>> \o SubSeq(v, dest, n - 1)
            \o SubSeq(v, n + 1, Len(v))

\* for i in 1..len { insert_tail(&mut v[..=i]) }
RECURSIVE sort_by_insert_tail(_, _)
sort_by_insert_tail(v, n) ==
    IF n > Len(v) THEN v
    ELSE sort_by_insert_tail(insert_tail(v, n), n + 1)

SortImpls == {"insert_head", "insert_tail"}

\* self.decls.as_mut_slice().sort()
sort(v, impl) ==
    IF impl = "insert_head" THEN sort_by_insert_head(v, Len(v) - 1)
    ELSE sort_by_insert_tail(v, 2)

\* fn contains(&self, longhand)
contains(longhand) == longhand \in longhands

InitCollection ==
    /\ BlockNew /\ ParseIdle /\ CollectionNew /\ CmpIdle

\* add that pushes the declaration without recording its longhand
AddWithin_NoPresence(limit) ==
    /\ Len(decls) < limit
    /\ \E new_decl \in ContextualPropertyDeclaration :
        decls' = Append(decls, new_decl)
    /\ coll_op' = "add"
    /\ UNCHANGED <<longhands, blockVars, parseVars, cmpVars>>

\* fn add(&mut self, new_decl), on a collection of fewer than limit elements
AddWithin(limit) ==
    /\ Len(decls) < limit
    /\ \E new_decl \in ContextualPropertyDeclaration :
        /\ longhands' = longhands \cup {LonghandIdFrom(new_decl.inner_decl)}
        /\ decls' = Append(decls, new_decl)
    /\ coll_op' = "add"
    /\ UNCHANGED <<blockVars, parseVars, cmpVars>>

\* fn add(&mut self, new_decl)
Add == AddWithin(MaxDecls)

\* fn sort(&mut self)
Sort ==
    /\ \E impl \in SortImpls : decls' = sort(decls, impl)
    /\ coll_op' = "sort"
    /\ UNCHANGED <<longhands, blockVars, parseVars, cmpVars>>

NextCollection == Add \/ Sort

SpecCollection == InitCollection /\ [][NextCollection]_vars

\* The same collection held to MaxPresence elements, for the properties of
\* the presence set, which do not depend on the order of decls.
AddFew == AddWithin(MaxPresence)

NextPresence == AddFew \/ Sort

SpecPresence == InitCollection /\ [][NextPresence]_vars

-----------------------------------------------------------------------------
(* Properties of the ordering, checked under SpecCmp *)

Compared == cmp_out # NoOrdering

SameProperty == cmp_self.inner_decl.tag = cmp_other.inner_decl.tag

Reverse(o) ==
    IF o = "Less" THEN "Greater" ELSE IF o = "Greater" THEN "Less" ELSE o

\* the order of two integers as an Ordering
IntOrder(m, n) ==
    IF m < n THEN "Less" ELSE IF m > n THEN "Greater" ELSE "Equal"

\* the cascade rank of an origin among important declarations
ImportantRank(o) ==
    CASE o = "SheetUserAgent" -> 3
      [] o = "SheetUser" -> 2
      [] o \in {"SheetAuthor", "Inline", "Embedded"} -> 1

\* C1: cmp is a strict weak ordering over all contextual declarations:
\* cmp(a,a) is Equal, cmp(a,b) is the reverse of cmp(b,a), 'less than' is
\* transitive and 'compares Equal' is transitive, also across property tags.
C1_StrictWeakOrdering ==
    Compared =>
        /\ cmp_out.ss = "Equal"
        /\ cmp_out.so = Reverse(cmp_out.os)
        /\ cmp_out.ot = Reverse(cmp_out.to)
        /\ (cmp_out.so = "Less" /\ cmp_out.ot = "Less" => cmp_out.st = "Less")
        /\ (cmp_out.so = "Equal" /\ cmp_out.ot = "Equal" => cmp_out.st = "Equal")

\* C6: of two declarations of the same property of which exactly one is
\* important, the important one is Greater and the other Less, whatever
\* their origins and specificities.
C6_ImportantWins ==
    Compared /\ SameProperty /\ cmp_self.important /\ ~cmp_other.important
        => cmp_out.so = "Greater" /\ cmp_out.os = "Less"

C6_Witness ==
    /\ Compared /\ SameProperty
    /\ cmp_self.important /\ ~cmp_other.important
    /\ cmp_self.origin = "SheetAuthor" /\ cmp_other.origin = "SheetUserAgent"
    /\ cmp_self.specificity < cmp_other.specificity
    /\ cmp_out.so = "Greater"

\* C7: for two important declarations of the same property and specificity
\* the origins are ordered Sheet(UserAgent) > Sheet(User) > Sheet(Author),
\* with Inline and Embedded ranked exactly as Sheet(Author).
C7_ImportantOrigins ==
    Compared /\ SameProperty /\ cmp_self.important /\ cmp_other.important
             /\ cmp_self.specificity = cmp_other.specificity
        => cmp_out.so = IntOrder(ImportantRank(cmp_self.origin),
                                 ImportantRank(cmp_other.origin))

C7_Witness ==
    /\ Compared /\ SameProperty
    /\ cmp_self.important /\ cmp_other.important
    /\ cmp_self.specificity = cmp_other.specificity
    /\ cmp_self.origin = "SheetUser" /\ cmp_other.origin = "SheetAuthor"
    /\ cmp_third.origin = "Inline" /\ cmp_third.important
    /\ cmp_third.inner_decl.tag = cmp_self.inner_decl.tag
    /\ cmp_third.specificity = cmp_self.specificity
    /\ cmp_out.so = "Greater" /\ cmp_out.st = "Greater" /\ cmp_out.ot = "Equal"

\* C8: for two normal declarations of the same property and specificity the
\* origins are ordered Sheet(Author) > Sheet(User) > Sheet(UserAgent), with
\* Inline and Embedded ranked exactly as Sheet(Author).
C8_NormalOrigins ==
    Compared /\ SameProperty /\ ~cmp_self.important /\ ~cmp_other.important
             /\ cmp_self.specificity = cmp_other.specificity
        => cmp_out.so = IntOrder(ImportantRank(cmp_other.origin),
                                 ImportantRank(cmp_self.origin))

C8_Witness ==
    /\ Compared /\ SameProperty
    /\ ~cmp_self.important /\ ~cmp_other.important
    /\ cmp_self.specificity = cmp_other.specificity
    /\ cmp_self.origin = "SheetAuthor" /\ cmp_other.origin = "SheetUser"
    /\ cmp_third.origin = "Embedded" /\ ~cmp_third.important
    /\ cmp_third.inner_decl.tag = cmp_self.inner_decl.tag
    /\ cmp_third.specificity = cmp_self.specificity
    /\ cmp_out.so = "Greater" /\ cmp_out.to = "Greater" /\ cmp_out.st = "Equal"

InlineAgainstLowSheet ==
    /\ Compared /\ SameProperty
    /\ cmp_self.origin \in {"Inline", "Embedded"}
    /\ cmp_other.origin \in {"SheetUserAgent", "SheetUser"}

\* C9 as stated: an Inline or Embedded declaration against a Sheet
\* declaration of UserAgent or User origin is strictly Greater when both
\* are important and strictly Less when both are normal.
C9_AsStated ==
    InlineAgainstLowSheet =>
        /\ (cmp_self.important /\ cmp_other.important => cmp_out.so = "Greater")
        /\ (~cmp_self.important /\ ~cmp_other.important => cmp_out.so = "Less")

\* C9 amended: an Inline or Embedded declaration against a Sheet
\* declaration of UserAgent or User origin is strictly Less when both are
\* important and strictly Greater when both are normal, for every pair of
\* specificities.
C9_InlineAsAuthor ==
    InlineAgainstLowSheet =>
        /\ (cmp_self.important /\ cmp_other.important
                => cmp_out.so = "Less" /\ cmp_out.os = "Greater")
        /\ (~cmp_self.important /\ ~cmp_other.important
                => cmp_out.so = "Greater" /\ cmp_out.os = "Less")

C9_Witness ==
    /\ InlineAgainstLowSheet
    /\ cmp_self.important /\ cmp_other.important
    /\ cmp_self.specificity > cmp_other.specificity
    /\ cmp_out.so = "Less"

\* the class of origins the origin step cannot tell apart
OriginClass(o) ==
    IF o \in {"SheetAuthor", "Inline", "Embedded"} THEN "Author" ELSE o

\* C10: for two declarations of the same property, importance and origin
\* class, cmp is the comparison of their specificities: the higher
\* specificity is Greater, equal specificities are Equal.
C10_SpecificityTieBreak ==
    Compared /\ SameProperty /\ cmp_self.important = cmp_other.important
             /\ OriginClass(cmp_self.origin) = OriginClass(cmp_other.origin)
        => cmp_out.so = IntOrder(cmp_self.specificity, cmp_other.specificity)

C10_Witness ==
    /\ Compared /\ SameProperty
    /\ cmp_self.important /\ cmp_other.important
    /\ cmp_self.origin = "Inline" /\ cmp_other.origin = "SheetAuthor"
    /\ cmp_self.specificity > cmp_other.specificity
    /\ cmp_out.so = "Greater" /\ cmp_out.os = "Less"

\* C11: two declarations whose property tags differ compare Equal, in both
\* directions, whatever their importance, origin and specificity.
C11_CrossPropertyEqual ==
    Compared /\ ~SameProperty
        => cmp_out.so = "Equal" /\ cmp_out.os = "Equal"

C11_Witness ==
    /\ Compared
    /\ cmp_self.inner_decl.tag = "FontSize" /\ cmp_other.inner_decl.tag = "Display"
    /\ cmp_self.important /\ ~cmp_other.important
    /\ cmp_self.origin = "SheetUserAgent" /\ cmp_other.origin = "Inline"
    /\ cmp_self.specificity > cmp_other.specificity
    /\ cmp_out.so = "Equal" /\ cmp_out.os = "Equal"

-----------------------------------------------------------------------------
(* Properties of the declaration block, checked under SpecBlock *)

\* C3: in every state reachable by add_declaration and remove_decl calls
\* the importance sequence is as long as the declaration sequence.
C3_ParallelLengths == Len(declarations_importance) = Len(declarations)

OnlyAdds == \A k \in 1..Len(calls) : calls[k].op = "add_declaration"

AddedTags == {calls[k].decl.tag : k \in 1..Len(calls)}

CallsOf(t) == {k \in 1..Len(calls) : calls[k].decl.tag = t}

FirstCall(t) == Min(CallsOf(t))

LastCall(t) == calls[Max(CallsOf(t))]

\* the rank of t among the added tags by first call
Slot(t) == Cardinality({u \in AddedTags : FirstCall(u) <= FirstCall(t)})

\* C4: after any sequence of add_declaration calls on a new block there is
\* exactly one entry per added tag, holding the payload and importance of
\* the last call with that tag, at the slot given by the tag's first call.
C4_DedupLastWins ==
    OnlyAdds =>
        /\ Len(declarations) = Cardinality(AddedTags)
        /\ \A t \in AddedTags :
            /\ Slot(t) <= Len(declarations)
            /\ Slot(t) <= Len(declarations_importance)
            /\ declarations[Slot(t)] = LastCall(t).decl
            /\ declarations_importance[Slot(t)] = important(LastCall(t).importance)

C4_Witness ==
    /\ OnlyAdds /\ Len(calls) = 3
    /\ calls[1] = AddCall([tag |-> "FontSize", value |-> "12px"], "Normal")
    /\ calls[2] = AddCall([tag |-> "Display", value |-> "12px"], "Normal")
    /\ calls[3] = AddCall([tag |-> "FontSize", value |-> "16px"], "Important")
    /\ declarations = <<[tag |-> "FontSize", value |-> "16px"],
                        [tag |-> "Display", value |-> "12px"]>>
    /\ declarations_importance = <<TRUE, FALSE>>

-----------------------------------------------------------------------------
(* Properties of the declaration list parser, checked under SpecParse *)

ParseDone == next_entry > Len(entries)

\* what parse_value returns for an entry taken alone
Alone(e) == parse_value(<<>>, e)

\* C5: an entry whose value parses but whose input is not fully consumed
\* contributes no declaration, and every declaration of the returned block
\* comes from an entry that parsed successfully and carries that entry's
\* own importance.
C5_FailedEntriesContributeNothing ==
    ParseDone =>
        \A i \in 1..Len(declarations) :
            \E k \in 1..Len(entries) :
                /\ Alone(entries[k]).result = "Ok"
                /\ entries[k].id = declarations[i].tag
                /\ entries[k].value = declarations[i].value
                /\ i <= Len(declarations_importance)
                /\ declarations_importance[i] = important(Alone(entries[k]).importance)

-----------------------------------------------------------------------------
(* Properties of the collection, checked under SpecCollection *)

\* C2: after sort(), of two elements with the same property tag the later
\* one is cascade-greater-or-equal: cmp(earlier, later) is never Greater.
C2_SortedWithinProperty ==
    coll_op = "sort" =>
        \A i, j \in 1..Len(decls) :
            i < j /\ decls[i].inner_decl.tag = decls[j].inner_decl.tag
                => cmp(decls[i], decls[j]) # "Greater"

-----------------------------------------------------------------------------
(* Properties of the presence set, checked under SpecPresence *)

\* the tags of the declarations held in the collection
TagsHeld == {decls[i].inner_decl.tag : i \in 1..Len(decls)}

\* C12: in every state reachable by add() and sort() calls, contains(p) is
\* true exactly when some declaration with property tag p is in the
\* collection.
C12_ContainsIffHeld ==
    \A p \in Tags : contains(p) <=> p \in TagsHeld

C12_Witness ==
    /\ coll_op = "sort" /\ Len(decls) = 2
    /\ decls[1].inner_decl.tag = "FontSize" /\ ~decls[1].important
    /\ decls[1].origin = "SheetUserAgent"
    /\ decls[2].inner_decl.tag = "MarginLeft" /\ decls[2].important
    /\ decls[2].origin = "Inline"
    /\ contains("FontSize") /\ contains("MarginLeft") /\ ~contains("Display")

====
